---- MODULE Spec2Model ----
(***************************************************************************)
(* A model of the TLI strategy application: the market-data aggregator,    *)
(* the technical-indicator estimator and the cross-validation scorer of    *)
(* stock_analyzer.py, the extraction coordinator of email_parser.py and    *)
(* the evaluation upsert of process_existing_data.py.                      *)
(*                                                                         *)
(* Python values that may be None, a number or a non-numeric JSON value    *)
(* are records [t, v]: t is "none", "num" or "str", v the number.  Prices  *)
(* are whole dollars and percentages whole percents; every comparison the  *)
(* code makes on a quotient is made here on the cross-multiplied integers. *)
(***************************************************************************)
EXTENDS Integers, Sequences, FiniteSets, TLC

VARIABLES
    pc,           \* position inside analyze_stock
    keys,         \* [alpha_vantage_key, finnhub_key]: which credentials are set
    tli_data,     \* the tli_data argument of analyze_stock
    data,         \* the MarketSnapshot under construction in _get_market_data
    indicators,   \* the TechnicalSnapshot of _get_technical_indicators
    score,        \* the accumulated score of _cross_validate
    analysis,     \* the record analyze_stock returns
    calls,        \* provider endpoints requested so far, in order
    warnings,     \* the provider errors logged so far, in order
    email_content,\* the text handed to parse_trading_email, a sequence of lines
    api_key,      \* whether GEMINI_API_KEY is set
    ai_response,  \* what the generative extractor answered, once asked
    parse_pc,     \* position inside parse_trading_email
    result,       \* the ExtractionResult parse_trading_email returns
    price_levels, \* the PriceLevel table, rows in id order
    evaluations,  \* the StockEvaluation table, rows in id order
    run_pc,       \* position of each run of process_existing_data
    run_symbols,  \* the symbols each run has still to process
    run_user,     \* levels[0].user_id of the symbol a run is processing
    run_analysis, \* the analysis a run holds for that symbol
    run_eval,     \* the id of the evaluation a run looked up, 0 for none
    overlap,      \* whether two runs have ever been in progress together
    last_commit,  \* per symbol, the analysis committed last
    parsed_data,  \* the parsed_data argument of extract_tli_recommendation
    tli_symbol,   \* its symbol argument
    tli_pc,       \* position inside extract_tli_recommendation
    tli_signal,   \* the tli_data it returns
    parsed_emails,\* the ParsedEmail table: the message ids logged as parsed
    saved_from    \* per commit of parse_gmail_email, the message it saved

analyzerVars ==
    <<pc, keys, tli_data, data, indicators, score, analysis, calls, warnings>>
parserVars == <<email_content, api_key, ai_response, parse_pc, result>>
storeVars ==
    <<price_levels, evaluations, run_pc, run_symbols, run_user, run_analysis,
      run_eval, overlap, last_commit>>
tliVars == <<parsed_data, tli_symbol, tli_pc, tli_signal>>
gmailVars == <<parsed_emails, saved_from>>
vars == <<analyzerVars, parserVars, storeVars, tliVars, gmailVars>>

-----------------------------------------------------------------------------
(* Python values *)

None == [t |-> "none", v |-> 0]
Num(n) == [t |-> "num", v |-> n]
NonNum == [t |-> "str", v |-> 0]

IsNone(x) == x.t = "none"
IsNum(x) == x.t = "num"
IsStr(x) == x.t = "str"

\* Python truthiness: None and 0 are false, a non-empty string is true.
Truthy(x) == IsStr(x) \/ (IsNum(x) /\ x.v # 0)

Abs(n) == IF n < 0 THEN -n ELSE n

-----------------------------------------------------------------------------
(* _get_market_data *)

MarketFields ==
    {"current_price", "price_change_pct", "volume", "market_cap",
     "pe_ratio", "high_52w", "low_52w"}

EmptyMarketData == [f \in MarketFields |-> None]

\* float(x) / int(x) of a quote entry: a missing entry takes the default 0.
ParsesAV(x) == ~IsStr(x)
ParsedAV(x) == IF IsNone(x) THEN Num(0) ELSE x

\* The Alpha Vantage GLOBAL_QUOTE responses: the request or its JSON raises,
\* a status other than 200, an empty quote, or a quote whose entries are
\* numeric strings, missing, or text float()/int() cannot convert.
AVQuotes ==
    { [price |-> Num(100), pct |-> Num(12),  volume |-> Num(1000)],
      [price |-> Num(100), pct |-> Num(10),  volume |-> Num(1000)],
      [price |-> None,     pct |-> Num(12),  volume |-> Num(1000)],
      [price |-> NonNum,   pct |-> Num(12),  volume |-> Num(1000)],
      [price |-> Num(100), pct |-> NonNum,   volume |-> Num(1000)],
      [price |-> Num(100), pct |-> Num(5),   volume |-> NonNum] }

AVResponses ==
    { [kind |-> "raise"], [kind |-> "status"], [kind |-> "empty"] }
    \cup { [kind |-> "quote", quote |-> q] : q \in AVQuotes }

\* Lines 61-68: the three assignments run in order and an exception leaves the
\* assignments already made.
AlphaVantageUpdate(d, r) ==
    IF r.kind # "quote" THEN d
    ELSE IF ~ParsesAV(r.quote.price) THEN d
    ELSE LET d1 == [d EXCEPT !["current_price"] = ParsedAV(r.quote.price)] IN
         IF ~ParsesAV(r.quote.pct) THEN d1
         ELSE LET d2 == [d1 EXCEPT !["price_change_pct"] = ParsedAV(r.quote.pct)] IN
              IF ~ParsesAV(r.quote.volume) THEN d2
              ELSE [d2 EXCEPT !["volume"] = ParsedAV(r.quote.volume)]

\* Lines 61-67 raise: the request or its JSON, or a conversion.
AlphaVantageRaises(r) ==
    \/ r.kind = "raise"
    \/ /\ r.kind = "quote"
       /\ \E f \in {"price", "pct", "volume"} : ~ParsesAV(r.quote[f])

\* The Finnhub quote: raw JSON values, None for a missing entry.
FHQuotes ==
    { [c |-> Num(100), dp |-> Num(7),   h |-> Num(110), l |-> Num(90)],
      [c |-> Num(100), dp |-> Num(-12), h |-> Num(110), l |-> Num(90)],
      [c |-> Num(0),   dp |-> None,     h |-> Num(0),   l |-> Num(0)],
      [c |-> None,     dp |-> None,     h |-> None,     l |-> None],
      [c |-> NonNum,   dp |-> Num(7),   h |-> Num(110), l |-> Num(90)] }

FHQuoteResponses ==
    { [kind |-> "raise"], [kind |-> "status"] }
    \cup { [kind |-> "quote", quote |-> q] : q \in FHQuotes }

FHMetrics ==
    { [pe |-> Num(15), cap |-> Num(2000)],
      [pe |-> None,    cap |-> None] }

FHMetricResponses ==
    { [kind |-> "raise"], [kind |-> "status"] }
    \cup { [kind |-> "metric", metric |-> m] : m \in FHMetrics }

\* Lines 77-83.
FinnhubQuoteUpdate(d, r) ==
    IF r.kind # "quote" THEN d
    ELSE [d EXCEPT !["current_price"] = r.quote.c,
                   !["price_change_pct"] = r.quote.dp,
                   !["high_52w"] = r.quote.h,
                   !["low_52w"] = r.quote.l]

\* Lines 87-91.
FinnhubMetricUpdate(d, r) ==
    IF r.kind # "metric" THEN d
    ELSE [d EXCEPT !["pe_ratio"] = r.metric.pe,
                   !["market_cap"] = r.metric.cap]

\* The Yahoo chart meta: regularMarketPrice, chartPreviousClose (None when
\* the entry is missing) and regularMarketVolume.
YHMetas ==
    { [price |-> Num(100), prev |-> Num(100), volume |-> Num(500)],
      [price |-> Num(100), prev |-> Num(80),  volume |-> Num(500)],
      [price |-> Num(100), prev |-> Num(125), volume |-> None],
      [price |-> Num(100), prev |-> None,     volume |-> Num(500)],
      [price |-> Num(100), prev |-> Num(0),   volume |-> Num(500)],
      [price |-> None,     prev |-> Num(100), volume |-> Num(500)] }

YHResponses ==
    { [kind |-> "raise"], [kind |-> "status"] }
    \cup { [kind |-> "meta", meta |-> m] : m \in YHMetas }

\* meta.get('chartPreviousClose', data['current_price'])
YHPrevClose(m) == IF IsNone(m.prev) THEN m.price ELSE m.prev

\* Lines 106-107 raise when the price is not a number or the divisor is 0.
YHPctRaises(m) ==
    \/ ~IsNum(m.price)
    \/ ~IsNum(YHPrevClose(m))
    \/ YHPrevClose(m).v = 0

YHPct(m) == Num(((m.price.v - YHPrevClose(m).v) * 100) \div YHPrevClose(m).v)

\* Lines 101-108 raise: the request or its JSON, or the change percent.
YahooRaises(r) ==
    \/ r.kind = "raise"
    \/ r.kind = "meta" /\ YHPctRaises(r.meta)

\* Lines 101-108.
YahooUpdate(d, r) ==
    IF r.kind # "meta" THEN d
    ELSE LET d1 == [d EXCEPT !["current_price"] = r.meta.price] IN
         IF YHPctRaises(r.meta) THEN d1
         ELSE [d1 EXCEPT !["price_change_pct"] = YHPct(r.meta),
                         !["volume"] = r.meta.volume]

\* The gate of line 73 without its test of the current price.
FinnhubGate_KeyOnly == keys.finnhub_key

\* The gate of line 98 closed once an earlier provider has failed.
YahooGate_UnlessFailed == ~Truthy(data["current_price"]) /\ warnings = <<>>

\* The gates of lines 58, 73 and 98.
AlphaVantageGate == keys.alpha_vantage_key
FinnhubGate == keys.finnhub_key /\ ~Truthy(data["current_price"])
YahooGate == ~Truthy(data["current_price"])

-----------------------------------------------------------------------------
(* _get_technical_indicators *)

DefaultIndicators ==
    [rsi |-> None, macd_signal |-> "neutral", ma_50 |-> None,
     ma_200 |-> None, trend |-> "neutral"]

\* The early return of lines 125-127 never taken.
NoCurrentPrice_Never(market) == FALSE

\* Lines 125-126: not current_price.
NoCurrentPrice(market) == ~Truthy(market["current_price"])

\* What one indicator request yields: NonNum stands for a request or a
\* float() conversion that raises, None for a status other than 200 or an
\* empty series, a number for the latest value of the series.
RsiResponses == {NonNum, None} \cup {Num(n) : n \in {0, 25, 30, 40, 60, 70, 75}}
SmaResponses == {NonNum, None} \cup {Num(n) : n \in {95, 99, 105}}

\* Lines 130-151: the RSI request, then the SMA request, inside one try.
FetchIndicators(ind, rsi, sma) ==
    IF IsStr(rsi) THEN ind
    ELSE LET i1 == [ind EXCEPT !.rsi = rsi] IN
         IF IsStr(sma) THEN i1 ELSE [i1 EXCEPT !.ma_50 = sma]

\* Lines 154-158 compare current_price with ma_50; a non-numeric price raises.
TrendRaises(ind, price) == Truthy(ind.ma_50) /\ IsStr(price)

\* Lines 154-158: the 2% band around the 50-day average.
Trend(ind, price) ==
    IF Truthy(ind.ma_50) /\ Truthy(price)
    THEN IF price.v * 100 > ind.ma_50.v * 102 THEN "bullish"
         ELSE IF price.v * 100 < ind.ma_50.v * 98 THEN "bearish"
         ELSE "neutral"
    ELSE "neutral"

\* The derivation of lines 161-169 with the trend mirrored ahead of the RSI
\* bands.
MacdSignal_TrendFirst(rsi, trend) ==
    IF Truthy(rsi)
    THEN IF trend = "bullish" THEN "bullish"
         ELSE IF trend = "bearish" THEN "bearish"
         ELSE IF rsi.v > 70 THEN "overbought"
         ELSE IF rsi.v < 30 THEN "oversold"
         ELSE "neutral"
    ELSE "neutral"

\* Lines 161-169.
MacdSignal(rsi, trend) ==
    IF Truthy(rsi)
    THEN IF rsi.v > 70 THEN "overbought"
         ELSE IF rsi.v < 30 THEN "oversold"
         ELSE IF trend = "bullish" THEN "bullish"
         ELSE IF trend = "bearish" THEN "bearish"
         ELSE "neutral"
    ELSE "neutral"

\* Lines 153-171, applied to the fetched indicators.
DeriveIndicators(ind, price) ==
    LET tr == Trend(ind, price) IN
    [ind EXCEPT !.trend = tr, !.macd_signal = MacdSignal(ind.rsi, tr)]

-----------------------------------------------------------------------------
(* _cross_validate *)

BuyLike(rec) == rec \in {"buy", "long"}
SellLike(rec) == rec \in {"sell", "short"}

\* Lines 211-214.
TliAdjust(tli) ==
    IF BuyLike(tli.recommendation) THEN 15
    ELSE IF SellLike(tli.recommendation) THEN -15
    ELSE 0

\* Lines 217-226: upside_pct = (target - current) / current * 100, compared
\* with 20, 10 and -10 (current is positive wherever the branch is taken).
UpsideCase(tli, market) ==
    LET c == market["current_price"]
        t == tli.target_price
    IN  IF Truthy(c) /\ Truthy(t)
        THEN IF (t.v - c.v) * 100 > 20 * c.v THEN "strong"
             ELSE IF (t.v - c.v) * 100 > 10 * c.v THEN "moderate"
             ELSE IF (t.v - c.v) * 100 < -10 * c.v THEN "above_target"
             ELSE "none"
        ELSE "none"

UpsideAdjust(tli, market) ==
    CASE UpsideCase(tli, market) = "strong" -> 10
      [] UpsideCase(tli, market) = "moderate" -> 5
      [] UpsideCase(tli, market) = "above_target" -> -10
      [] OTHER -> 0

UpsideFlags(tli, market) ==
    CASE UpsideCase(tli, market) = "strong" -> <<"strong_upside">>
      [] UpsideCase(tli, market) = "above_target" -> <<"price_above_target">>
      [] OTHER -> <<>>

\* Lines 229-238.
RsiAdjust(tech) ==
    IF Truthy(tech.rsi)
    THEN IF tech.rsi.v < 30 THEN 10
         ELSE IF tech.rsi.v > 70 THEN -10
         ELSE IF 40 <= tech.rsi.v /\ tech.rsi.v <= 60 THEN 5
         ELSE 0
    ELSE 0

RsiFlags(tech) ==
    IF Truthy(tech.rsi)
    THEN IF tech.rsi.v < 30 THEN <<"rsi_oversold">>
         ELSE IF tech.rsi.v > 70 THEN <<"rsi_overbought">>
         ELSE <<>>
    ELSE <<>>

\* Lines 241-247.
MaAdjust(market, tech) ==
    IF Truthy(market["current_price"]) /\ Truthy(tech.ma_50)
    THEN IF market["current_price"].v > tech.ma_50.v THEN 5 ELSE -5
    ELSE 0

MaFlags(market, tech) ==
    IF Truthy(market["current_price"]) /\ Truthy(tech.ma_50)
       /\ ~(market["current_price"].v > tech.ma_50.v)
    THEN <<"below_ma50">>
    ELSE <<>>

\* The MACD rule without the oversold/overbought confluence with a buy.
MacdAdjust_NoConfluence(tli, tech) ==
    IF tech.macd_signal = "bullish" THEN 5
    ELSE IF tech.macd_signal = "bearish" THEN -5
    ELSE 0

\* Lines 250-260.
MacdAdjust(tli, tech) ==
    IF tech.macd_signal = "bullish" THEN 5
    ELSE IF tech.macd_signal = "bearish" THEN -5
    ELSE IF tech.macd_signal = "oversold" /\ BuyLike(tli.recommendation) THEN 8
    ELSE IF tech.macd_signal = "overbought" /\ BuyLike(tli.recommendation) THEN -8
    ELSE 0

MacdFlags(tli, tech) ==
    IF tech.macd_signal = "oversold" /\ BuyLike(tli.recommendation)
    THEN <<"oversold_confluence">>
    ELSE IF tech.macd_signal = "overbought" /\ BuyLike(tli.recommendation)
    THEN <<"overbought_conflict">>
    ELSE <<>>

\* The risk/reward rule with the first threshold exclusive (ratio > 3).
RiskRewardCase_ExclusiveThreshold(tli, market) ==
    LET c == market["current_price"]
        t == tli.target_price
        s == tli.stop_loss
    IN  IF Truthy(c) /\ Truthy(t) /\ Truthy(s) /\ c.v - s.v > 0
        THEN IF t.v - c.v > 3 * (c.v - s.v) THEN "excellent"
             ELSE IF t.v - c.v >= 2 * (c.v - s.v) THEN "good"
             ELSE IF t.v - c.v < c.v - s.v THEN "poor"
             ELSE "none"
        ELSE "none"

\* Lines 263-276: ratio = reward / risk compared with 3, 2 and 1 when risk > 0.
RiskRewardCase(tli, market) ==
    LET c == market["current_price"]
        t == tli.target_price
        s == tli.stop_loss
    IN  IF Truthy(c) /\ Truthy(t) /\ Truthy(s)
        THEN LET risk == c.v - s.v
                 reward == t.v - c.v
             IN  IF risk > 0
                 THEN IF reward >= 3 * risk THEN "excellent"
                      ELSE IF reward >= 2 * risk THEN "good"
                      ELSE IF reward < risk THEN "poor"
                      ELSE "none"
                 ELSE "none"
        ELSE "none"

RiskRewardAdjust(tli, market) ==
    CASE RiskRewardCase(tli, market) = "excellent" -> 10
      [] RiskRewardCase(tli, market) = "good" -> 5
      [] RiskRewardCase(tli, market) = "poor" -> -10
      [] OTHER -> 0

RiskRewardFlags(tli, market) ==
    CASE RiskRewardCase(tli, market) = "excellent" -> <<"rr_excellent">>
      [] RiskRewardCase(tli, market) = "good" -> <<"rr_good">>
      [] RiskRewardCase(tli, market) = "poor" -> <<"rr_poor">>
      [] OTHER -> <<>>

\* The volatility rule with the upper threshold inclusive (abs >= 10).
RiskLevel_InclusiveHigh(market) ==
    LET p == market["price_change_pct"] IN
    IF Truthy(p)
    THEN IF Abs(p.v) >= 10 THEN "high"
         ELSE IF Abs(p.v) > 5 THEN "medium-high"
         ELSE "medium"
    ELSE "medium"

\* Lines 279-285.
RiskLevel(market) ==
    LET p == market["price_change_pct"] IN
    IF Truthy(p)
    THEN IF Abs(p.v) > 10 THEN "high"
         ELSE IF Abs(p.v) > 5 THEN "medium-high"
         ELSE "medium"
    ELSE "medium"

VolatilityFlags(market) ==
    IF RiskLevel(market) = "high" THEN <<"high_volatility">> ELSE <<>>

\* Lines 202-276: the score before clamping.
Score(tli, market, tech) ==
    50 + TliAdjust(tli) + UpsideAdjust(tli, market) + RsiAdjust(tech)
       + MaAdjust(market, tech) + MacdAdjust(tli, tech)
       + RiskRewardAdjust(tli, market)

Flags(tli, market, tech) ==
    UpsideFlags(tli, market) \o RsiFlags(tech) \o MaFlags(market, tech)
    \o MacdFlags(tli, tech) \o RiskRewardFlags(tli, market)
    \o VolatilityFlags(market)

\* Classify with the first threshold exclusive (score > 75).
Classify_ExclusiveThreshold(s) ==
    IF s > 75 THEN "strong_buy"
    ELSE IF s >= 60 THEN "buy"
    ELSE IF s >= 45 THEN "hold"
    ELSE IF s >= 30 THEN "sell"
    ELSE "strong_sell"

\* Lines 288-297.
Classify(s) ==
    IF s >= 75 THEN "strong_buy"
    ELSE IF s >= 60 THEN "buy"
    ELSE IF s >= 45 THEN "hold"
    ELSE IF s >= 30 THEN "sell"
    ELSE "strong_sell"

Min(a, b) == IF a < b THEN a ELSE b
Max(a, b) == IF a > b THEN a ELSE b

\* Clamp without its upper limit: max(0, score).
Clamp_NoUpperLimit(s) == Max(0, s)

\* Line 300: max(0, min(100, score)).
Clamp(s) == Max(0, Min(100, s))

\* Arithmetic of _cross_validate on a non-numeric price or change raises
\* TypeError (lines 218, 243, 281).
CrossValidateRaises(tli, market, tech) ==
    \/ IsStr(market["current_price"]) /\ Truthy(tli.target_price)
    \/ IsStr(market["current_price"]) /\ Truthy(tech.ma_50)
    \/ IsStr(market["price_change_pct"])

\* Lines 176-303: the record _cross_validate returns.
CrossValidateRecord(tli, market, tech) ==
    [tli_recommendation |-> tli.recommendation,
     tli_target_price |-> tli.target_price,
     tli_stop_loss |-> tli.stop_loss,
     tli_confidence |-> tli.confidence,
     current_price |-> market["current_price"],
     price_change_pct |-> market["price_change_pct"],
     volume |-> market["volume"],
     market_cap |-> market["market_cap"],
     pe_ratio |-> market["pe_ratio"],
     rsi |-> tech.rsi,
     macd_signal |-> tech.macd_signal,
     ma_50 |-> tech.ma_50,
     ma_200 |-> tech.ma_200,
     flags |-> Flags(tli, market, tech),
     agreement_score |-> Clamp(Score(tli, market, tech)),
     overall_recommendation |-> Classify(Score(tli, market, tech)),
     risk_level |-> RiskLevel(market)]

\* Lines 305-327.
FallbackRecord(tli) ==
    [tli_recommendation |-> tli.recommendation,
     tli_target_price |-> tli.target_price,
     tli_stop_loss |-> tli.stop_loss,
     tli_confidence |-> tli.confidence,
     current_price |-> None,
     price_change_pct |-> None,
     volume |-> None,
     market_cap |-> None,
     pe_ratio |-> None,
     rsi |-> None,
     macd_signal |-> "neutral",
     ma_50 |-> None,
     ma_200 |-> None,
     flags |-> <<"external_data_unavailable">>,
     agreement_score |-> 50,
     overall_recommendation |-> tli.recommendation,
     risk_level |-> "medium"]

-----------------------------------------------------------------------------
(* analyze_stock *)

Recommendations == {"buy", "sell", "wait", "hold"}
TargetPrices == {None} \cup {Num(n) : n \in {85, 110, 120, 130}}
StopLosses == {None, Num(90), Num(105)}

\* The TliSignal records extract_tli_recommendation hands to analyze_stock.
TliSignals ==
    [recommendation : Recommendations, target_price : TargetPrices,
     stop_loss : StopLosses, confidence : {"medium"}]

NoAnalysis == <<>>

AnalyzerInit ==
    /\ pc = "alpha_vantage"
    /\ keys \in [alpha_vantage_key : BOOLEAN, finnhub_key : BOOLEAN]
    /\ tli_data \in TliSignals
    /\ data = EmptyMarketData
    /\ indicators = DefaultIndicators
    /\ score = None
    /\ analysis = NoAnalysis
    /\ calls = <<>>
    /\ warnings = <<>>

\* Lines 58-70.
AlphaVantage ==
    /\ pc = "alpha_vantage"
    /\ IF AlphaVantageGate
       THEN \E r \in AVResponses :
                /\ data' = AlphaVantageUpdate(data, r)
                /\ calls' = Append(calls, "av_quote")
                /\ warnings' = (IF AlphaVantageRaises(r)
                                THEN Append(warnings, "alpha_vantage")
                                ELSE warnings)
       ELSE UNCHANGED <<data, calls, warnings>>
    /\ pc' = "finnhub"
    /\ UNCHANGED <<keys, tli_data, indicators, score, analysis, parserVars, storeVars, tliVars, gmailVars>>

\* Lines 73-95: the quote request and, unless it raised, the metric request.
Finnhub ==
    /\ pc = "finnhub"
    /\ IF FinnhubGate
       THEN \E q \in FHQuoteResponses :
                IF q.kind = "raise"
                THEN /\ calls' = Append(calls, "fh_quote")
                     /\ warnings' = Append(warnings, "finnhub")
                     /\ UNCHANGED data
                ELSE \E m \in FHMetricResponses :
                        /\ data' = FinnhubMetricUpdate(FinnhubQuoteUpdate(data, q), m)
                        /\ calls' = calls \o <<"fh_quote", "fh_metric">>
                        /\ warnings' = (IF m.kind = "raise"
                                        THEN Append(warnings, "finnhub")
                                        ELSE warnings)
       ELSE UNCHANGED <<data, calls, warnings>>
    /\ pc' = "yahoo"
    /\ UNCHANGED <<keys, tli_data, indicators, score, analysis, parserVars, storeVars, tliVars, gmailVars>>

\* Lines 98-111.
Yahoo ==
    /\ pc = "yahoo"
    /\ IF YahooGate
       THEN \E r \in YHResponses :
                /\ data' = YahooUpdate(data, r)
                /\ calls' = Append(calls, "yh_chart")
                /\ warnings' = (IF YahooRaises(r)
                                THEN Append(warnings, "yahoo")
                                ELSE warnings)
       ELSE UNCHANGED <<data, calls, warnings>>
    /\ pc' = "technical"
    /\ UNCHANGED <<keys, tli_data, indicators, score, analysis, parserVars, storeVars, tliVars, gmailVars>>

\* Lines 115-171; an exception leaves for the handler of lines 41-43.
GetTechnicalIndicators ==
    /\ pc = "technical"
    /\ IF NoCurrentPrice(data)
       THEN /\ pc' = "cross_validate"
            /\ UNCHANGED <<indicators, calls, warnings>>
       ELSE IF keys.alpha_vantage_key
       THEN \E rsi \in RsiResponses, sma \in SmaResponses :
                LET ind == FetchIndicators(indicators, rsi, sma) IN
                /\ calls' = (IF IsStr(rsi) THEN Append(calls, "av_rsi")
                             ELSE calls \o <<"av_rsi", "av_sma">>)
                /\ warnings' = (IF IsStr(rsi) \/ IsStr(sma)
                                THEN Append(warnings, "technical")
                                ELSE warnings)
                /\ IF TrendRaises(ind, data["current_price"])
                   THEN /\ pc' = "fallback"
                        /\ indicators' = ind
                   ELSE /\ pc' = "cross_validate"
                        /\ indicators' = DeriveIndicators(ind, data["current_price"])
       ELSE /\ pc' = "cross_validate"
            /\ indicators' = DeriveIndicators(indicators, data["current_price"])
            /\ UNCHANGED <<calls, warnings>>
    /\ UNCHANGED <<keys, tli_data, data, score, analysis, parserVars, storeVars, tliVars, gmailVars>>

\* Lines 173-303.
CrossValidate ==
    /\ pc = "cross_validate"
    /\ IF CrossValidateRaises(tli_data, data, indicators)
       THEN /\ pc' = "fallback"
            /\ UNCHANGED <<score, analysis>>
       ELSE /\ pc' = "done"
            /\ score' = Num(Score(tli_data, data, indicators))
            /\ analysis' = CrossValidateRecord(tli_data, data, indicators)
    /\ UNCHANGED <<keys, tli_data, data, indicators, calls, warnings,
                   parserVars, storeVars, tliVars, gmailVars>>

\* Lines 41-43 and 305-327.
FallbackAnalysis ==
    /\ pc = "fallback"
    /\ analysis' = FallbackRecord(tli_data)
    /\ pc' = "done"
    /\ UNCHANGED <<keys, tli_data, data, indicators, score, calls, warnings,
                   parserVars, storeVars, tliVars, gmailVars>>

-----------------------------------------------------------------------------
(* email_parser.py: parse_with_regex *)

\* An email is a sequence of lines, each one phrase the patterns of
\* parse_with_regex look for.  No pattern of the parser matches across two
\* of these lines.  kind names the phrase, sym the ticker or commodity it
\* mentions, x and y the dollar amounts it carries.
SymbolLine(s) == [kind |-> "symbol", sym |-> s, x |-> 0, y |-> 0]
CommodityLine(s) == [kind |-> "commodity", sym |-> s, x |-> 0, y |-> 0]
PtLine(x) == [kind |-> "pt", sym |-> "", x |-> x, y |-> 0]
RangeLine(x, y) == [kind |-> "range", sym |-> "", x |-> x, y |-> y]
BounceLine(x, y) == [kind |-> "bounce", sym |-> "", x |-> x, y |-> y]
ResistanceLine(x) == [kind |-> "resistance_to", sym |-> "", x |-> x, y |-> 0]
HighLine(x) == [kind |-> "high", sym |-> "", x |-> x, y |-> 0]
PlanLine == [kind |-> "plan", sym |-> "", x |-> 0, y |-> 0]

\* A line tagging two tickers, "$NVDA and $AMD".
SymbolPairLine == [kind |-> "symbol_pair", sym |-> "", x |-> 0, y |-> 0]
PairedSymbols == {"NVDA", "AMD"}

MaxPrice == 100000

Lines ==
    { SymbolLine("AMD"), SymbolLine("NVDA"), SymbolLine("THE"), SymbolPairLine,
      CommodityLine("GOLD"),
      PtLine(50),
      RangeLine(50, 45), RangeLine(50, 50),
      BounceLine(40, 45), BounceLine(40, MaxPrice),
      ResistanceLine(60), HighLine(60),
      PlanLine }

\* Lines 126-135 (the words of the stop list that have two to five letters
\* are the ones the pattern of line 123 can capture).
Excluded ==
    {"THE", "AND", "OR", "BUT", "FOR", "NOT", "ARE", "WAS", "WE", "YOU", "ALL",
     "CAN", "HER", "ONE", "OUR", "OUT", "DAY", "GET", "HAS", "HIM",
     "HIS", "HOW", "MAN", "NEW", "NOW", "OLD", "SEE", "TWO", "WAY", "WHO",
     "BOY", "DID", "ITS", "LET", "PUT", "SAY", "SHE", "TOO", "USE", "FROM",
     "DATE", "SUBJECT", "REPLY", "TO", "EMAIL", "VIEW", "APP", "LIKE", "SHARE",
     "COMMENT", "POST", "SENT", "BEGIN", "MESSAGE", "FORWARDED", "DCA", "WAVE",
     "FEB", "JAN", "MAR", "APR", "MAY", "JUN", "JUL", "AUG", "SEP", "OCT",
     "NOV", "DEC", "THIS", "HAVE", "BEEN", "ONCE", "THAT", "WITH", "WILL",
     "MUST", "JUST", "BACK", "THEN", "NEXT", "MORE", "ALSO", "HERE", "VERY",
     "MA", "WMA", "PT", "FIB", "NYC", "US", "OK", "SF", "CA"}

\* Line 142, in the order the loop of line 143 tries them.
Commodities ==
    <<"PALLADIUM", "GOLD", "SILVER", "PLATINUM", "COPPER", "OIL", "CRUDE">>

\* The lexicographic order of the names sorted() compares (line 151).
SymbolRank ==
    "AMD" :> 1 @@ "COPPER" :> 2 @@ "CRUDE" :> 3 @@ "GOLD" :> 4 @@ "NVDA" :> 5
    @@ "OIL" :> 6 @@ "PALLADIUM" :> 7 @@ "PLATINUM" :> 8 @@ "SILVER" :> 9
    @@ "THE" :> 10

\* The dollar-tagged names without the stop-list filter of line 138.
DollarSymbols_Unfiltered(text) ==
    { text[i].sym : i \in { j \in 1..Len(text) : text[j].kind = "symbol" } }
    \cup (IF \E i \in 1..Len(text) : text[i].kind = "symbol_pair"
          THEN PairedSymbols ELSE {})

\* Line 123 and line 138: the dollar-tagged names outside the stop list.
DollarSymbols(text) ==
    ({ text[i].sym : i \in { j \in 1..Len(text) : text[j].kind = "symbol" } }
     \cup (IF \E i \in 1..Len(text) : text[i].kind = "symbol_pair"
           THEN PairedSymbols ELSE {}))
    \ Excluded

\* Lines 141-148: the first commodity of the list the text names (every text
\* of this model is shorter than 500 characters).
CommodityNamed(text, c) ==
    \E i \in 1..Len(text) : text[i].kind = "commodity" /\ text[i].sym = c

FirstCommodity(text) ==
    LET found == { k \in 1..Len(Commodities) : CommodityNamed(text, Commodities[k]) }
    IN  IF found = {} THEN {}
        ELSE { Commodities[CHOOSE k \in found : \A m \in found : k <= m] }

RECURSIVE SortedSeq(_)
\* Line 151: sorted(list(set(...))).
SortedSeq(S) ==
    IF S = {} THEN <<>>
    ELSE LET least == CHOOSE a \in S : \A b \in S : SymbolRank[a] <= SymbolRank[b]
         IN  <<least>> \o SortedSeq(S \ {least})

\* Lines 121-151.
ExtractSymbols(text) ==
    SortedSeq(IF DollarSymbols(text) # {} THEN DollarSymbols(text)
              ELSE FirstCommodity(text))

\* The bounds check of lines 161, 177, 205, 222, 246, 269, 285 and 301, on
\* whole dollars: 0.01 < price < 100000.
InRange(price) == price >= 1 /\ price < MaxPrice

Level(s, type, price, notes) ==
    [symbol |-> s, type |-> type, price |-> price, notes |-> notes]

Note(tag, a, b) == [tag |-> tag, a |-> a, b |-> b]

\* Lines 156-169.
PtLevels(line, s) ==
    IF line.kind = "pt" /\ InRange(line.x)
    THEN <<Level(s, "target", line.x, Note("PT", line.x, 0))>>
    ELSE <<>>

\* Lines 216-236.
RangeLevels(line, s) ==
    IF line.kind = "range" /\ InRange(line.x) /\ InRange(line.y)
    THEN LET lo == Min(line.x, line.y)
             hi == Max(line.x, line.y)
         IN  <<Level(s, "buy_zone", lo, Note("Buy Zone", lo, hi)),
               Level(s, "buy_zone", hi, Note("Buy Zone", lo, hi))>>
    ELSE <<>>

\* The bounce family emitting a stop_loss level instead of a support level.
BounceLevels_AsStopLoss(line, s) ==
    IF line.kind = "bounce" /\ InRange(line.x) /\ InRange(line.y)
    THEN <<Level(s, "stop_loss", line.x, Note("Bounced from", line.x, 0))>>
    ELSE <<>>

\* Lines 263-277.
BounceLevels(line, s) ==
    IF line.kind = "bounce" /\ InRange(line.x) /\ InRange(line.y)
    THEN <<Level(s, "support", line.x, Note("Bounced from", line.x, 0))>>
    ELSE <<>>

\* Lines 280-293.
ResistanceLevels(line, s) ==
    IF line.kind = "resistance_to" /\ InRange(line.x)
    THEN <<Level(s, "resistance", line.x, Note("resistance up to", line.x, 0))>>
    ELSE <<>>

\* Lines 296-309.
HighLevels(line, s) ==
    IF line.kind = "high" /\ InRange(line.x)
    THEN <<Level(s, "resistance", line.x, Note("High of", line.x, 0))>>
    ELSE <<>>

RECURSIVE Flatten(_)
Flatten(ss) == IF ss = <<>> THEN <<>> ELSE Head(ss) \o Flatten(Tail(ss))

\* One pattern family over the whole text: re.finditer yields the matches
\* in text order.
PtMatches(text, s) == Flatten([i \in 1..Len(text) |-> PtLevels(text[i], s)])

RangeMatches(text, s) ==
    Flatten([i \in 1..Len(text) |-> RangeLevels(text[i], s)])

BounceMatches(text, s) ==
    Flatten([i \in 1..Len(text) |-> BounceLevels(text[i], s)])

ResistanceMatches(text, s) ==
    Flatten([i \in 1..Len(text) |-> ResistanceLevels(text[i], s)])

HighMatches(text, s) ==
    Flatten([i \in 1..Len(text) |-> HighLevels(text[i], s)])

\* Lines 154-309: the families in the order the loop body runs them.
SymbolLevels(text, s) ==
    PtMatches(text, s) \o RangeMatches(text, s) \o BounceMatches(text, s)
    \o ResistanceMatches(text, s) \o HighMatches(text, s)

\* The levels attributed to the first symbol only.
AllLevels_FirstSymbolOnly(text, symbols) ==
    IF symbols = <<>> THEN <<>> ELSE SymbolLevels(text, symbols[1])

AllLevels(text, symbols) ==
    Flatten([k \in 1..Len(symbols) |-> SymbolLevels(text, symbols[k])])

LevelKey(l) == <<l.symbol, l.type, l.price>>

RECURSIVE UniqueLevels(_, _)
\* Lines 329-337.
UniqueLevels(levels, seen) ==
    IF levels = <<>> THEN <<>>
    ELSE IF LevelKey(Head(levels)) \in seen
    THEN UniqueLevels(Tail(levels), seen)
    ELSE <<Head(levels)>>
         \o UniqueLevels(Tail(levels), seen \cup {LevelKey(Head(levels))})

\* Lines 312-326: the lines carrying a strategic keyword, in text order.
StrategicLines(text) == SelectSeq(text, LAMBDA line : line.kind = "plan")

\* Lines 110-339.
ParseWithRegex(text) ==
    [symbols |-> ExtractSymbols(text),
     levels |-> UniqueLevels(AllLevels(text, ExtractSymbols(text)), {}),
     notes |-> StrategicLines(text),
     raw_content |-> text]

-----------------------------------------------------------------------------
(* email_parser.py: parse_with_ai and parse_trading_email *)

AILevelTypes == {"target", "entry", "stop_loss", "support", "resistance"}

\* JSON objects the generative extractor may answer with: the shape asked
\* for, the same with a level repeated, a level of a type outside the list
\* of line 74, and an object without levels.
AIObjects ==
    { [symbols |-> <<"AMD">>,
       levels |-> <<Level("AMD", "target", 150, Note("PT1", 0, 0)),
                    Level("AMD", "stop_loss", 140, Note("Stop", 0, 0))>>,
       notes |-> <<>>],
      [symbols |-> <<"AMD">>,
       levels |-> <<Level("AMD", "target", 150, Note("PT1", 0, 0)),
                    Level("AMD", "target", 150, Note("PT2", 0, 0))>>,
       notes |-> <<>>],
      [symbols |-> <<"AMD">>,
       levels |-> <<Level("AMD", "buy_zone", 45, Note("Zone", 0, 0))>>,
       notes |-> <<>>],
      [symbols |-> <<"AMD">>, notes |-> <<>>] }

\* How a call of parse_with_ai can fail: the credential is refused or the
\* provider errs (line 96), the text is not JSON (line 99), the JSON is not
\* an object (line 100).
AIFailures == {"credential", "provider", "not_json", "not_object"}

AIResponses ==
    { [kind |-> k] : k \in AIFailures }
    \cup { [kind |-> "object", object |-> o] : o \in AIObjects }

NoResponse == [kind |-> "none"]

\* Lines 95-108: every failure is raised again to the caller.
AIRaises(r) == r.kind \in AIFailures

\* A handler that catches the provider's errors only.
Caught_ProviderErrorsOnly(kind) == kind \in {"credential", "provider"}

\* Lines 30-31: except Exception catches each of them.
Caught(kind) == kind \in AIFailures

\* Lines 99-101: the parsed object with raw_content added.
AIResult(r, text) ==
    [f \in DOMAIN r.object \cup {"raw_content"} |->
        IF f = "raw_content" THEN text ELSE r.object[f]]

NoResult == <<>>

RECURSIVE SeqsUpTo(_, _)
SeqsUpTo(S, n) ==
    IF n = 0 THEN {<<>>}
    ELSE LET shorter == SeqsUpTo(S, n - 1)
         IN  shorter \cup { Append(t, a) : t \in shorter, a \in S }

MaxLines == 3

ParserInit ==
    /\ email_content \in SeqsUpTo(Lines, MaxLines)
    /\ api_key \in BOOLEAN
    /\ ai_response = NoResponse
    /\ parse_pc = "start"
    /\ result = NoResult

\* Lines 25-27.
CheckApiKey ==
    /\ parse_pc = "start"
    /\ parse_pc' = (IF api_key THEN "ai" ELSE "regex")
    /\ UNCHANGED <<email_content, api_key, ai_response, result, analyzerVars, storeVars, tliVars, gmailVars>>

\* Lines 28-31 and 36-108.
ParseWithAI ==
    /\ parse_pc = "ai"
    /\ \E r \in AIResponses :
        /\ ai_response' = r
        /\ IF AIRaises(r)
           THEN /\ parse_pc' = (IF Caught(r.kind) THEN "regex" ELSE "raised")
                /\ UNCHANGED result
           ELSE /\ parse_pc' = "done"
                /\ result' = AIResult(r, email_content)
    /\ UNCHANGED <<email_content, api_key, analyzerVars, storeVars, tliVars, gmailVars>>

\* Line 34.
RegexFallback ==
    /\ parse_pc = "regex"
    /\ result' = ParseWithRegex(email_content)
    /\ parse_pc' = "done"
    /\ UNCHANGED <<email_content, api_key, ai_response, analyzerVars, storeVars, tliVars, gmailVars>>

-----------------------------------------------------------------------------
(* stock_analyzer.py: extract_tli_recommendation *)

\* The keywords of lines 355-361 that the text of a level note contains.
NoteWords ==
    "PT" :> {} @@ "Buy Zone" :> {"buy"} @@ "Bounced from" :> {}
    @@ "resistance up to" :> {} @@ "High of" :> {} @@ "PT1" :> {}
    @@ "Stop" :> {} @@ "Zone" :> {}

BuyWords == {"buy", "long", "entry", "bullish", "accumulate"}
SellWords == {"sell", "short", "exit", "bearish", "reduce"}
WaitWords == {"wait", "watch", "monitor"}
HighConfidenceWords == {"strong", "aggressive"}

\* Line 50 of process_existing_data.py: the notes of the levels joined; what
\* matters of the joined text is the keywords it contains.
JoinedWords(levels) ==
    UNION { NoteWords[levels[i].notes.tag] : i \in 1..Len(levels) }

\* Line 345: level.get('type', '').lower(), for the spellings of this model.
LowerType(type) ==
    CASE type = "TARGET" -> "target"
      [] type = "Stop" -> "stop"
      [] OTHER -> type

\* The price of the first matching level instead of the last.
LastPrice_FirstWins(levels, types) ==
    LET idx == { i \in 1..Len(levels) : LowerType(levels[i].type) \in types } IN
    IF idx = {} THEN None
    ELSE Num(levels[CHOOSE i \in idx : \A j \in idx : i <= j].price)

RECURSIVE LastPrice(_, _)
\* Lines 344-351: each matching level overwrites the value, so the last one
\* in sequence order stays.
LastPrice(levels, types) ==
    IF levels = <<>> THEN None
    ELSE LET l == levels[Len(levels)] IN
         IF LowerType(l.type) \in types THEN Num(l.price)
         ELSE LastPrice(SubSeq(levels, 1, Len(levels) - 1), types)

\* The keyword families tested with the sell family first.
RecommendationOf_SellFirst(words) ==
    IF words \cap SellWords # {} THEN "sell"
    ELSE IF words \cap BuyWords # {} THEN "buy"
    ELSE IF words \cap WaitWords # {} THEN "wait"
    ELSE "hold"

\* Lines 354-362.
RecommendationOf(words) ==
    IF words \cap BuyWords # {} THEN "buy"
    ELSE IF words \cap SellWords # {} THEN "sell"
    ELSE IF words \cap WaitWords # {} THEN "wait"
    ELSE "hold"

\* Lines 355-358.
ConfidenceOf(words) ==
    IF words \cap BuyWords # {} /\ words \cap HighConfidenceWords # {}
    THEN "high"
    ELSE "medium"

\* Lines 330-364, on the levels of parsed_data and the keywords of its notes.
ExtractTliRecommendation(levels, words, symbol) ==
    LET own == SelectSeq(levels, LAMBDA l : l.symbol = symbol) IN
    [recommendation |-> RecommendationOf(words),
     target_price |-> LastPrice(own, {"target", "pt"}),
     stop_loss |-> LastPrice(own, {"stop_loss", "stop"}),
     confidence |-> ConfidenceOf(words)]

\* The words a notes text is made of, with the keywords of lines 355-361
\* that the lower-cased word contains as a substring.
KeywordsIn ==
    "accumulate" :> {"accumulate"} @@ "SELL" :> {"sell"}
    @@ "watchlist" :> {"watch"} @@ "strong" :> {"strong"}
    @@ "belong" :> {"long"} @@ "target" :> {}

NoteVocabulary == DOMAIN KeywordsIn

\* Line 354 and the membership tests of lines 355-361 on a text of words.
WordsOf(notes) == UNION { KeywordsIn[notes[i]] : i \in 1..Len(notes) }

StoreSymbols == {"AMD", "NVDA"}

\* The levels parsed_data may carry.
TliLevels ==
    { Level("AMD", "target", 130, Note("PT", 130, 0)),
      Level("AMD", "TARGET", 120, Note("PT", 120, 0)),
      Level("AMD", "Stop", 90, Note("Stop", 90, 0)),
      Level("AMD", "support", 95, Note("Bounced from", 95, 0)),
      Level("NVDA", "pt", 200, Note("PT", 200, 0)),
      Level("NVDA", "stop_loss", 150, Note("Stop", 150, 0)) }

MaxNoteWords == 3
MaxTliLevels == 2

NoSignal == <<>>

TliInit ==
    /\ parsed_data \in [levels : SeqsUpTo(TliLevels, MaxTliLevels),
                        notes : SeqsUpTo(NoteVocabulary, MaxNoteWords)]
    /\ tli_symbol \in StoreSymbols
    /\ tli_pc = "start"
    /\ tli_signal = NoSignal

\* Lines 330-364.
ExtractTli ==
    /\ tli_pc = "start"
    /\ tli_signal' = ExtractTliRecommendation(parsed_data.levels,
                                              WordsOf(parsed_data.notes),
                                              tli_symbol)
    /\ tli_pc' = "done"
    /\ UNCHANGED <<parsed_data, tli_symbol, analyzerVars, parserVars, storeVars,
                   gmailVars>>

-----------------------------------------------------------------------------
(* process_existing_data.py *)

Runs == {"r1", "r2"}
Users == {1, 2}

PriceLevelRow(u, s, type, price, notes) ==
    [user_id |-> u, symbol |-> s, level_type |-> type, price |-> price,
     notes |-> notes]

\* The rows the parse handlers of app.py may have stored.
PriceLevelRows ==
    { PriceLevelRow(u, s, "target", 130, Note("PT", 130, 0)) :
        u \in Users, s \in StoreSymbols }
    \cup { PriceLevelRow(u, "AMD", "buy_zone", 95, Note("Buy Zone", 95, 105)) :
        u \in Users }

MaxLevels == 2

\* What the providers hold when a run analyses a symbol: nothing, or a quote
\* with its indicators.
QuotedMarket ==
    [EmptyMarketData EXCEPT !["current_price"] = Num(100),
                            !["price_change_pct"] = Num(7),
                            !["volume"] = Num(1000)]

QuotedIndicators ==
    DeriveIndicators([DefaultIndicators EXCEPT !.rsi = Num(25), !.ma_50 = Num(95)],
                     Num(100))

\* The records analyze_stock may return for one TliSignal (lines 31-43 of
\* stock_analyzer.py).
AnalysesOf(tli) ==
    { CrossValidateRecord(tli, EmptyMarketData, DefaultIndicators),
      CrossValidateRecord(tli, QuotedMarket, QuotedIndicators),
      FallbackRecord(tli) }

RECURSIVE DistinctSymbols(_, _)
\* Lines 18-19.
DistinctSymbols(rows, seen) ==
    IF rows = <<>> THEN <<>>
    ELSE IF Head(rows).symbol \in seen THEN DistinctSymbols(Tail(rows), seen)
    ELSE <<Head(rows).symbol>>
         \o DistinctSymbols(Tail(rows), seen \cup {Head(rows).symbol})

\* Line 39: PriceLevel.query.filter_by(symbol=symbol).all().
LevelsOf(rows, s) == SelectSeq(rows, LAMBDA l : l.symbol = s)

\* Lines 42-51: the parsed data rebuilt from the rows.
RebuiltLevels(rows) ==
    [i \in 1..Len(rows) |->
        Level(rows[i].symbol, rows[i].level_type, rows[i].price, rows[i].notes)]

\* Line 60: the ids of the evaluations filter_by(symbol=symbol) matches.
EvaluationIds(s) ==
    { i \in 1..Len(evaluations) : evaluations[i].symbol = s }

InProgress(r) == run_pc[r] \notin {"idle", "done"}

StoreInit ==
    /\ price_levels \in SeqsUpTo(PriceLevelRows, MaxLevels)
    /\ evaluations = <<>>
    /\ run_pc = [r \in Runs |-> "idle"]
    /\ run_symbols = [r \in Runs |-> <<>>]
    /\ run_user = [r \in Runs |-> 0]
    /\ run_analysis = [r \in Runs |-> NoAnalysis]
    /\ run_eval = [r \in Runs |-> 0]
    /\ overlap = FALSE
    /\ last_commit = [s \in StoreSymbols |-> NoAnalysis]

\* Lines 16-32.
StartRun(r) ==
    /\ run_pc[r] = "idle"
    /\ LET symbols == DistinctSymbols(price_levels, {}) IN
        /\ run_symbols' = [run_symbols EXCEPT ![r] = symbols]
        /\ run_pc' = [run_pc EXCEPT ![r] = IF symbols = <<>> THEN "done" ELSE "analyze"]
        /\ overlap' = (overlap \/ (symbols # <<>> /\ \E o \in Runs \ {r} : InProgress(o)))
    /\ UNCHANGED <<price_levels, evaluations, run_user, run_analysis, run_eval,
                   last_commit, analyzerVars, parserVars, tliVars, gmailVars>>

\* Lines 36-57.
AnalyzeSymbol(r) ==
    /\ run_pc[r] = "analyze"
    /\ LET s == Head(run_symbols[r])
           levels == LevelsOf(price_levels, s)
           tli == ExtractTliRecommendation(RebuiltLevels(levels),
                                           JoinedWords(levels), s)
       IN  /\ \E a \in AnalysesOf(tli) :
                run_analysis' = [run_analysis EXCEPT ![r] = a]
           /\ run_user' = [run_user EXCEPT ![r] = levels[1].user_id]
    /\ run_pc' = [run_pc EXCEPT ![r] = "lookup"]
    /\ UNCHANGED <<price_levels, evaluations, run_symbols, run_eval, overlap,
                   last_commit, analyzerVars, parserVars, tliVars, gmailVars>>

\* Line 60: first() of the matching rows, whose order the query leaves open.
LookupEvaluation(r) ==
    /\ run_pc[r] = "lookup"
    /\ LET ids == EvaluationIds(Head(run_symbols[r])) IN
        IF ids = {}
        THEN run_eval' = [run_eval EXCEPT ![r] = 0]
        ELSE \E i \in ids : run_eval' = [run_eval EXCEPT ![r] = i]
    /\ run_pc' = [run_pc EXCEPT ![r] = "commit"]
    /\ UNCHANGED <<price_levels, evaluations, run_symbols, run_user,
                   run_analysis, overlap, last_commit, analyzerVars, parserVars, tliVars, gmailVars>>

\* The columns of StockEvaluation the analysis may write (lines 156-178 of
\* models.py; tli_notes is not modelled).
Columns ==
    {"tli_recommendation", "tli_target_price", "tli_stop_loss",
     "tli_confidence", "current_price", "price_change_pct", "volume",
     "market_cap", "pe_ratio", "rsi", "macd_signal", "ma_50", "ma_200",
     "overall_recommendation", "agreement_score", "risk_level", "flags"}

\* Lines 75-77: setattr for every key of the analysis that is a column; a
\* column the analysis does not name keeps the value old holds.
SetAttrs(old, a) ==
    [k \in Columns |-> IF k \in DOMAIN a THEN a[k] ELSE old[k]]

\* The symbols a run has committed so far.
Committed(r) ==
    IF run_pc[r] = "idle" THEN 0
    ELSE Len(DistinctSymbols(price_levels, {})) - Len(run_symbols[r])

RECURSIVE CommittedBy(_)
CommittedBy(rs) ==
    IF rs = {} THEN 0
    ELSE LET r == CHOOSE x \in rs : TRUE
         IN  Committed(r) + CommittedBy(rs \ {r})

\* datetime.utcnow / datetime.now at a commit (line 79 and the column
\* defaults of models.py): a clock that advances with every commit.
Now == 1 + CommittedBy(Runs)

\* Lines 62-67 and 75-79: the evaluation created when the lookup found
\* none; its unset columns are NULL.
NewEvaluation(id, s, u, a) ==
    [id |-> id, symbol |-> s, user_id |-> u,
     values |-> SetAttrs([k \in Columns |-> None], a),
     created_at |-> Now, updated_at |-> Now]

\* An update that keeps the stored price and RSI where the analysis has None.
UpdatedEvaluation_KeepsKnown(e, a) ==
    [e EXCEPT !.values = [k \in Columns |->
                            IF k \in {"current_price", "rsi"} /\ a[k] = None
                            THEN e.values[k] ELSE a[k]],
              !.updated_at = Now]

\* Lines 75-79.
UpdatedEvaluation(e, a) ==
    [e EXCEPT !.values = SetAttrs(e.values, a), !.updated_at = Now]

\* Lines 62-84, then the loop goes to the next symbol.
CommitEvaluation(r) ==
    /\ run_pc[r] = "commit"
    /\ LET s == Head(run_symbols[r]) IN
        /\ evaluations' =
            (IF run_eval[r] = 0
             THEN Append(evaluations,
                         NewEvaluation(Len(evaluations) + 1, s, run_user[r],
                                       run_analysis[r]))
             ELSE [evaluations EXCEPT ![run_eval[r]] =
                        UpdatedEvaluation(@, run_analysis[r])])
        /\ last_commit' = [last_commit EXCEPT ![s] = run_analysis[r]]
    /\ run_symbols' = [run_symbols EXCEPT ![r] = Tail(@)]
    /\ run_pc' = [run_pc EXCEPT ![r] =
                    IF Len(run_symbols[r]) > 1 THEN "analyze" ELSE "done"]
    /\ UNCHANGED <<price_levels, run_user, run_analysis, run_eval, overlap,
                   analyzerVars, parserVars, tliVars, gmailVars>>

-----------------------------------------------------------------------------
(* parse_with_regex, then extract_tli_recommendation, then analyze_stock *)

\* The keywords of lines 355-361 of stock_analyzer.py that a strategic line
\* of the notes contains ("Plan: accumulate on dips").
StrategicWords(notes) == IF notes = <<>> THEN {} ELSE {"accumulate"}

\* extract_tli_recommendation on a pattern-based result, for one of its
\* symbols.
ResolveSignal ==
    /\ parse_pc = "done" /\ result = ParseWithRegex(email_content)
    /\ tli_pc = "idle"
    /\ \E k \in 1..Len(result.symbols) :
        /\ tli_symbol' = result.symbols[k]
        /\ tli_signal' = ExtractTliRecommendation(result.levels,
                                                  StrategicWords(result.notes),
                                                  result.symbols[k])
    /\ parsed_data' = [levels |-> result.levels, notes |-> <<>>]
    /\ tli_pc' = "done"
    /\ UNCHANGED <<analyzerVars, parserVars, storeVars, gmailVars>>

\* analyze_stock on that signal, the providers answering nothing or a quote
\* with its indicators; lines 31-39 of stock_analyzer.py.
AnalyzeSignal ==
    /\ tli_pc = "done" /\ pc = "idle"
    /\ \E quoted \in BOOLEAN :
        LET market == IF quoted THEN QuotedMarket ELSE EmptyMarketData
            tech == IF quoted THEN QuotedIndicators ELSE DefaultIndicators
        IN  /\ tli_data' = tli_signal
            /\ data' = market
            /\ indicators' = tech
            /\ score' = Num(Score(tli_signal, market, tech))
            /\ analysis' = CrossValidateRecord(tli_signal, market, tech)
    /\ pc' = "done"
    /\ UNCHANGED <<keys, calls, warnings, parserVars, storeVars, tliVars, gmailVars>>

-----------------------------------------------------------------------------
(* app.py: parse_gmail_email *)

MessageIds == {"m1", "m2", "m3"}

\* The body get_email_by_id returns for each message of the mailbox.
Mailbox ==
    "m1" :> <<SymbolLine("AMD"), PtLine(50)>>
    @@ "m2" :> <<SymbolLine("NVDA"), RangeLine(50, 45)>>
    @@ "m3" :> <<PlanLine>>

\* How far the handler gets: no access token (401), no such email (404),
\* or the email is fetched and parsed.
GmailOutcomes == {"no_token", "not_found", "parsed"}

MaxGmailLevels == 5

\* Lines 511-520: one PriceLevel per parsed level, owned by current_user.
RowsOf(u, levels) ==
    [i \in 1..Len(levels) |->
        PriceLevelRow(u, levels[i].symbol, levels[i].type, levels[i].price,
                      levels[i].notes)]

GmailInit ==
    /\ parsed_emails = {}
    /\ saved_from = <<>>

\* Lines 472-538, for the user u and the message m; the pattern-based result
\* stands for parse_trading_email(email['body']).
ParseGmailEmail(u, m) ==
    \E outcome \in GmailOutcomes :
        LET levels == ParseWithRegex(Mailbox[m]).levels IN
        /\ Len(price_levels) + Len(levels) <= MaxGmailLevels
        /\ IF outcome = "parsed" /\ levels # <<>>
           THEN /\ price_levels' = price_levels \o RowsOf(u, levels)
                /\ saved_from' = Append(saved_from, m)
           ELSE UNCHANGED <<price_levels, saved_from>>
        /\ UNCHANGED <<parsed_emails, evaluations, run_pc, run_symbols, run_user,
                       run_analysis, run_eval, overlap, last_commit,
                       analyzerVars, parserVars, tliVars>>

-----------------------------------------------------------------------------
(* The specifications *)

AnalyzerIdle ==
    /\ pc = "idle"
    /\ keys = [alpha_vantage_key |-> FALSE, finnhub_key |-> FALSE]
    /\ tli_data = [recommendation |-> "hold", target_price |-> None,
                   stop_loss |-> None, confidence |-> "medium"]
    /\ data = EmptyMarketData
    /\ indicators = DefaultIndicators
    /\ score = None
    /\ analysis = NoAnalysis
    /\ calls = <<>>
    /\ warnings = <<>>

ParserIdle ==
    /\ email_content = <<>>
    /\ api_key = FALSE
    /\ ai_response = NoResponse
    /\ parse_pc = "idle"
    /\ result = NoResult

StoreIdle ==
    /\ price_levels = <<>>
    /\ evaluations = <<>>
    /\ run_pc = [r \in Runs |-> "idle"]
    /\ run_symbols = [r \in Runs |-> <<>>]
    /\ run_user = [r \in Runs |-> 0]
    /\ run_analysis = [r \in Runs |-> NoAnalysis]
    /\ run_eval = [r \in Runs |-> 0]
    /\ overlap = FALSE
    /\ last_commit = [s \in StoreSymbols |-> NoAnalysis]

TliIdle ==
    /\ parsed_data = [levels |-> <<>>, notes |-> <<>>]
    /\ tli_symbol = "AMD"
    /\ tli_pc = "idle"
    /\ tli_signal = NoSignal

Init == AnalyzerInit /\ ParserIdle /\ StoreIdle /\ TliIdle /\ GmailInit

Next ==
    \/ AlphaVantage
    \/ Finnhub
    \/ Yahoo
    \/ GetTechnicalIndicators
    \/ CrossValidate
    \/ FallbackAnalysis

Spec == Init /\ [][Next]_vars

ParseInit == AnalyzerIdle /\ ParserInit /\ StoreIdle /\ TliIdle /\ GmailInit

ParseNext ==
    \/ CheckApiKey
    \/ ParseWithAI
    \/ RegexFallback

SpecParse == ParseInit /\ [][ParseNext]_vars

StoreSpecInit == AnalyzerIdle /\ ParserIdle /\ StoreInit /\ TliIdle /\ GmailInit

StoreNext ==
    \E r \in Runs :
        \/ StartRun(r)
        \/ AnalyzeSymbol(r)
        \/ LookupEvaluation(r)
        \/ CommitEvaluation(r)

SpecStore == StoreSpecInit /\ [][StoreNext]_vars

TliSpecInit == AnalyzerIdle /\ ParserIdle /\ StoreIdle /\ TliInit /\ GmailInit

TliNext == ExtractTli

SpecTli == TliSpecInit /\ [][TliNext]_vars

GmailSpecInit == AnalyzerIdle /\ ParserIdle /\ StoreIdle /\ TliIdle /\ GmailInit

GmailNext == \E u \in Users, m \in MessageIds : ParseGmailEmail(u, m)

SpecGmail == GmailSpecInit /\ [][GmailNext]_vars

PipelineNext ==
    \/ CheckApiKey
    \/ ParseWithAI
    \/ RegexFallback
    \/ ResolveSignal
    \/ AnalyzeSignal

SpecPipeline == ParseInit /\ [][PipelineNext]_vars

-----------------------------------------------------------------------------
(* Claims about analyze_stock, checked under Spec *)

Returned == pc = "done"

NoMarketData == \A f \in MarketFields : IsNone(data[f])

OverallClasses == {"strong_buy", "buy", "hold", "sell", "strong_sell"}

\* C1: when no market data is available at all (every field of the snapshot
\* is None), the record analyze_stock returns has overall_recommendation equal
\* to the raw TLI recommendation, exactly one "external data unavailable"
\* flag and agreement_score 50.
C1_FallbackWhenNoMarketData ==
    (Returned /\ NoMarketData) =>
        /\ analysis.overall_recommendation = tli_data.recommendation
        /\ analysis.flags = <<"external_data_unavailable">>
        /\ analysis.agreement_score = 50

\* C2: once a provider has set a field of the snapshot to a non-null value,
\* no later provider of the chain changes that field.
C2_FirstWriterWins ==
    [][\A f \in MarketFields : ~IsNone(data[f]) => data'[f] = data[f]]_vars

\* C8: the overall recommendation _cross_validate gives is decided by the
\* accumulated score alone: strong_buy from 75, buy from 60 to 74, hold from
\* 45 to 59, sell from 30 to 44, strong_sell below 30.
C8_ClassifiedByScore ==
    (Returned /\ IsNum(score)) =>
        /\ score.v >= 75 <=> analysis.overall_recommendation = "strong_buy"
        /\ (60 <= score.v /\ score.v < 75) <=> analysis.overall_recommendation = "buy"
        /\ (45 <= score.v /\ score.v < 60) <=> analysis.overall_recommendation = "hold"
        /\ (30 <= score.v /\ score.v < 45) <=> analysis.overall_recommendation = "sell"
        /\ score.v < 30 <=> analysis.overall_recommendation = "strong_sell"

\* A scored record whose score sits on the strong_buy threshold.
C8_Witness ==
    /\ Returned /\ IsNum(score) /\ score.v = 75
    /\ analysis.overall_recommendation = "strong_buy"

\* C9: every record analyze_stock returns has agreement_score within 0..100:
\* the accumulated score when that lies in 0..100, 0 when it is below and 100
\* when it is above (the fallback record, which accumulates no score,
\* carries 50).
C9_AgreementClamped ==
    Returned =>
        /\ analysis.agreement_score \in 0..100
        /\ IsNum(score) =>
            /\ (0 <= score.v /\ score.v <= 100) => analysis.agreement_score = score.v
            /\ score.v < 0 => analysis.agreement_score = 0
            /\ score.v > 100 => analysis.agreement_score = 100

\* A scored record whose accumulated score exceeds 100.
C9_Witness ==
    Returned /\ IsNum(score) /\ score.v > 100 /\ analysis.agreement_score = 100

\* C10: every record analyze_stock returns, the fallback record included, has
\* overall_recommendation among strong_buy, buy, hold, sell, strong_sell.
C10_OverallInEnum ==
    Returned => analysis.overall_recommendation \in OverallClasses

\* A provider has supplied a current price: the snapshot holds a value for
\* it other than None and other than the zero that stands for no quote.
PriceKnown(d) == ~IsNone(d["current_price"]) /\ d["current_price"] # Num(0)

\* The order of the endpoints: Alpha Vantage, Finnhub, Yahoo, then the
\* indicator requests of _get_technical_indicators.
EndpointRank ==
    "av_quote" :> 1 @@ "fh_quote" :> 2 @@ "fh_metric" :> 3 @@ "yh_chart" :> 4
    @@ "av_rsi" :> 5 @@ "av_sma" :> 6

InProviderOrder(c) ==
    \A i, j \in 1..Len(c) : i < j => EndpointRank[c[i]] < EndpointRank[c[j]]

\* C14: the providers are requested in the order Alpha Vantage, Finnhub,
\* Yahoo only, and Finnhub or Yahoo is requested only while no provider has
\* supplied a current price.
C14_ProviderOrder ==
    [][ /\ InProviderOrder(calls')
        /\ (pc \in {"finnhub", "yahoo"} /\ calls' # calls) => ~PriceKnown(data)
      ]_vars

\* Alpha Vantage supplied the price and, with the Finnhub credential set,
\* neither Finnhub nor Yahoo was requested.
C14_Witness ==
    /\ pc = "technical" /\ keys.finnhub_key
    /\ PriceKnown(data) /\ calls = <<"av_quote">>

MarketPhases == {"alpha_vantage", "finnhub", "yahoo"}

Requested(c, e) == \E i \in 1..Len(c) : c[i] = e

Logged(p) == \E i \in 1..Len(warnings) : warnings[i] = p

\* C15: a failure of one provider is logged and never leaves
\* _get_market_data; after it the next provider whose gate holds is still
\* requested, and no endpoint is requested twice in one fetch.
C15_FailureDoesNotStopChain ==
    [][ /\ pc \in MarketPhases => pc' \in MarketPhases \cup {"technical"}
        /\ (pc = "finnhub" /\ Logged("alpha_vantage")
                /\ keys.finnhub_key /\ ~PriceKnown(data))
                => Requested(calls', "fh_quote")
        /\ (pc = "yahoo" /\ warnings # <<>> /\ ~PriceKnown(data))
                => Requested(calls', "yh_chart")
        /\ \A i, j \in 1..Len(calls') : calls'[i] = calls'[j] => i = j
      ]_vars

\* Alpha Vantage and Finnhub both failed and Yahoo was requested after them.
C15_Witness ==
    /\ pc = "technical"
    /\ warnings = <<"alpha_vantage", "finnhub">>
    /\ calls = <<"av_quote", "fh_quote", "yh_chart">>

\* Every provider that was requested logged a failure.
AllAttemptedFailed ==
    /\ calls # <<>>
    /\ Requested(calls, "av_quote") => Logged("alpha_vantage")
    /\ Requested(calls, "fh_quote") => Logged("finnhub")
    /\ Requested(calls, "yh_chart") => Logged("yahoo")

\* C16: when every requested provider failed, the snapshot _get_market_data
\* returns has every field None: a provider that failed leaves no field it
\* had written before failing.
C16_TotalFailureLeavesNone ==
    (pc = "technical" /\ AllAttemptedFailed) => data = EmptyMarketData

\* _get_technical_indicators has returned or raised.
PastTechnical == pc \in {"cross_validate", "fallback", "done"}

\* C17: for a snapshot without current_price, _get_technical_indicators
\* returns the default snapshot (rsi None, macd_signal neutral, ma_50 None,
\* ma_200 None, trend neutral) and requests no indicator endpoint.
C17_NoPriceNoIndicators ==
    (PastTechnical /\ IsNone(data["current_price"])) =>
        /\ indicators = DefaultIndicators
        /\ ~Requested(calls, "av_rsi")
        /\ ~Requested(calls, "av_sma")

\* With the indicator credential set, a snapshot without price came back
\* with the defaults.
C17_Witness ==
    /\ pc = "cross_validate" /\ keys.alpha_vantage_key
    /\ IsNone(data["current_price"]) /\ indicators = DefaultIndicators

\* The RSI is a number of the range 0..100.
RsiKnown == IsNum(indicators.rsi) /\ indicators.rsi.v \in 0..100

\* C18: once _get_technical_indicators has returned with a known RSI,
\* macd_signal is overbought for RSI > 70, oversold for RSI < 30 and the
\* derived trend (bullish, bearish or neutral) otherwise; with the RSI
\* unknown it is neutral.
C18_MacdFromRsi ==
    pc = "cross_validate" =>
        /\ RsiKnown =>
                indicators.macd_signal =
                    (IF indicators.rsi.v > 70 THEN "overbought"
                     ELSE IF indicators.rsi.v < 30 THEN "oversold"
                     ELSE indicators.trend)
        /\ IsNone(indicators.rsi) => indicators.macd_signal = "neutral"

Scored == Returned /\ IsNum(score)

HasFlag(f) == \E i \in 1..Len(analysis.flags) : analysis.flags[i] = f

\* What the RSI rule added to the score of the record returned.
RsiContribution ==
    score.v - (50 + TliAdjust(tli_data) + UpsideAdjust(tli_data, data)
                  + MaAdjust(data, indicators) + MacdAdjust(tli_data, indicators)
                  + RiskRewardAdjust(tli_data, data))

\* C19: for a known RSI the RSI rule adds 10 and the oversold flag below 30,
\* subtracts 10 and adds the overbought flag above 70, adds 5 without a flag
\* from 40 to 60 inclusive, and adds nothing in [30, 40) and (60, 70].
C19_RsiBands ==
    (Scored /\ RsiKnown) =>
        LET r == indicators.rsi.v IN
        /\ RsiContribution =
                (IF r < 30 THEN 10 ELSE IF r > 70 THEN -10
                 ELSE IF 40 <= r /\ r <= 60 THEN 5 ELSE 0)
        /\ HasFlag("rsi_oversold") <=> r < 30
        /\ HasFlag("rsi_overbought") <=> r > 70

\* What the upside rule added to the score of the record returned.
UpsideContribution ==
    score.v - (50 + TliAdjust(tli_data) + RsiAdjust(indicators)
                  + MaAdjust(data, indicators) + MacdAdjust(tli_data, indicators)
                  + RiskRewardAdjust(tli_data, data))

\* C20: with current_price and target_price known, the upside rule adds 10
\* and a flag when the upside is above 20%, adds 5 without a flag when it is
\* from 10% to 20% inclusive, subtracts 10 and adds a flag when it is below
\* -10%, and adds nothing otherwise.
C20_UpsideBands ==
    (Scored /\ IsNum(data["current_price"]) /\ data["current_price"].v > 0
            /\ IsNum(tli_data.target_price)) =>
        LET c == data["current_price"].v
            gain == (tli_data.target_price.v - c) * 100
        IN  /\ UpsideContribution =
                    (IF gain > 20 * c THEN 10
                     ELSE IF gain >= 10 * c THEN 5
                     ELSE IF gain < -10 * c THEN -10 ELSE 0)
            /\ HasFlag("strong_upside") <=> gain > 20 * c
            /\ HasFlag("price_above_target") <=> gain < -10 * c

\* The worked example: a buy at 100 with target 130 and stop 90, RSI 25,
\* 50-day average 95 and an oversold MACD signal.
C11_Example ==
    /\ tli_data.recommendation = "buy"
    /\ tli_data.target_price = Num(130)
    /\ tli_data.stop_loss = Num(90)
    /\ data["current_price"] = Num(100)
    /\ indicators.rsi = Num(25)
    /\ indicators.ma_50 = Num(95)
    /\ indicators.macd_signal = "oversold"

\* C11: the score of a scored record is 50 plus the adjustment of each of
\* the six rules, each counted once; in the worked example it is
\* 50+15+10+10+5+8+10 = 108, agreement_score is 100 and the class strong_buy.
C11_ScoreAccumulates ==
    (Returned /\ IsNum(score)) =>
        /\ score.v = 50 + TliAdjust(tli_data) + UpsideAdjust(tli_data, data)
                        + RsiAdjust(indicators) + MaAdjust(data, indicators)
                        + MacdAdjust(tli_data, indicators)
                        + RiskRewardAdjust(tli_data, data)
        /\ C11_Example =>
                /\ score = Num(108)
                /\ analysis.agreement_score = 100
                /\ analysis.overall_recommendation = "strong_buy"

\* The worked example has been scored.
C11_Witness == Returned /\ IsNum(score) /\ C11_Example /\ score = Num(108)

\* What the risk/reward rule added to the score of the record returned.
RiskRewardContribution ==
    score.v - (50 + TliAdjust(tli_data) + UpsideAdjust(tli_data, data)
                  + RsiAdjust(indicators) + MaAdjust(data, indicators)
                  + MacdAdjust(tli_data, indicators))

\* current_price, target_price and stop_loss are known and the risk
\* current_price - stop_loss is positive.
RiskRewardFires ==
    /\ IsNum(data["current_price"]) /\ IsNum(tli_data.target_price)
    /\ IsNum(tli_data.stop_loss)
    /\ data["current_price"].v - tli_data.stop_loss.v > 0

\* C21: the risk/reward rule contributes only when the three prices are
\* known and the risk is positive; then, for ratio = reward / risk, it adds
\* 10 and a flag for ratio >= 3, 5 and a flag for 2 <= ratio < 3, subtracts
\* 10 and adds a flag for ratio < 1, and adds nothing and no flag for
\* 1 <= ratio < 2.
C21_RiskRewardBands ==
    Scored =>
        LET risk == data["current_price"].v - tli_data.stop_loss.v
            reward == tli_data.target_price.v - data["current_price"].v
            band == IF ~RiskRewardFires THEN "none"
                    ELSE IF reward >= 3 * risk THEN "excellent"
                    ELSE IF reward >= 2 * risk THEN "good"
                    ELSE IF reward < risk THEN "poor"
                    ELSE "none"
        IN  /\ RiskRewardContribution =
                    (CASE band = "excellent" -> 10 [] band = "good" -> 5
                       [] band = "poor" -> -10 [] OTHER -> 0)
            /\ HasFlag("rr_excellent") <=> band = "excellent"
            /\ HasFlag("rr_good") <=> band = "good"
            /\ HasFlag("rr_poor") <=> band = "poor"

\* A record scored at a ratio of exactly 3: price 100, target 130, stop 90.
C21_Witness ==
    /\ Scored /\ data["current_price"] = Num(100)
    /\ tli_data.target_price = Num(130) /\ tli_data.stop_loss = Num(90)
    /\ HasFlag("rr_excellent")

\* The absolute value of the day's change, 0 when it is unknown.
ChangeSize ==
    IF IsNum(data["price_change_pct"])
    THEN (IF data["price_change_pct"].v < 0 THEN -data["price_change_pct"].v
          ELSE data["price_change_pct"].v)
    ELSE 0

C28_ScoreWithinBounds ==
    Scored =>
        /\ 0 <= score.v /\ score.v <= 108
        /\ analysis.agreement_score = (IF score.v > 100 THEN 100 ELSE score.v)

\* The lowest score: a sell above its target, overbought, below the average
\* and with a poor risk/reward ratio.
C28_Witness ==
    /\ Scored /\ score = Num(0) /\ analysis.agreement_score = 0
    /\ tli_data.recommendation = "sell" /\ indicators.macd_signal = "overbought"

-----------------------------------------------------------------------------
(* Claims about parse_trading_email, checked under SpecParse *)

Parsed == parse_pc = "done"

AIFailed == api_key /\ ai_response.kind \in AIFailures

ResultFields == {"symbols", "levels", "notes", "raw_content"}

\* C3: with a credential configured, when the generative path fails
\* parse_trading_email raises nothing and returns the result of the pattern
\* path for the same text, with symbols, levels, notes and raw_content.
C3_FallbackOnAIFailure ==
    AIFailed =>
        /\ parse_pc # "raised"
        /\ Parsed =>
            /\ DOMAIN result = ResultFields
            /\ result = ParseWithRegex(email_content)

\* The generative path failed on a malformed answer and a result with a
\* level came back.
C3_Witness ==
    /\ AIFailed /\ ai_response.kind = "not_json" /\ Parsed
    /\ "levels" \in DOMAIN result /\ result.levels # <<>>

WellShapedLevel(l) ==
    /\ DOMAIN l = {"symbol", "type", "price", "notes"}
    /\ l.type \in AILevelTypes

\* The shape the instruction of lines 52-76 asks for.
WellShaped(r) ==
    /\ r.kind = "object"
    /\ DOMAIN r.object = {"symbols", "levels", "notes"}
    /\ \A i \in 1..Len(r.object.levels) : WellShapedLevel(r.object.levels[i])

\* C4: an answer of the generative extractor that is not exactly the
\* ExtractionResult shape is treated as a failure: the pattern-based result is
\* returned instead of the answer.
C4_MalformedShapeFallsBack ==
    (api_key /\ Parsed /\ ai_response.kind # "none" /\ ~WellShaped(ai_response))
        => result = ParseWithRegex(email_content)

NoDuplicateKeys(levels) ==
    \A i, j \in 1..Len(levels) :
        LevelKey(levels[i]) = LevelKey(levels[j]) => i = j

\* C5: in every result parse_trading_email returns, whichever path produced
\* it, no two levels share the same (symbol, type, price).
C5_NoDuplicateLevels ==
    (Parsed /\ "levels" \in DOMAIN result) => NoDuplicateKeys(result.levels)

\* The result was produced by parse_with_regex.
PatternBased == Parsed /\ (~api_key \/ AIFailed)

\* C13: the symbols of a pattern-based result contain no stop-listed word
\* and are in strictly ascending lexicographic order, hence without
\* duplicates.
C13_SymbolsFilteredSorted ==
    PatternBased =>
        /\ \A i \in 1..Len(result.symbols) : result.symbols[i] \notin Excluded
        /\ \A i, j \in 1..Len(result.symbols) :
                i < j => SymbolRank[result.symbols[i]] < SymbolRank[result.symbols[j]]

\* A text tagging NVDA ahead of AMD, and a stop-listed word, has been parsed.
C13_Witness ==
    /\ PatternBased
    /\ email_content = <<SymbolLine("NVDA"), SymbolLine("THE"), SymbolLine("AMD")>>
    /\ result.symbols = <<"AMD", "NVDA">>

\* The lines of the text that are phrases of one kind with X in range.
PhrasesOf(kind) ==
    { i \in 1..Len(email_content) :
        email_content[i].kind = kind /\ InRange(email_content[i].x) }

\* The positions of the result's levels with a given symbol, type and price.
LevelsAt(s, type, price) ==
    { k \in 1..Len(result.levels) :
        LevelKey(result.levels[k]) = <<s, type, price>> }

ResultSymbols == { result.symbols[k] : k \in 1..Len(result.symbols) }

\* C23: for every bounce phrase whose X is in range the pattern-based result
\* holds, for each symbol, exactly one support level at X, whatever Y is.
C23_BounceIgnoresY ==
    PatternBased =>
        \A i \in PhrasesOf("bounce") : \A s \in ResultSymbols :
            /\ Cardinality(LevelsAt(s, "support", email_content[i].x)) = 1
            /\ \A k \in LevelsAt(s, "support", email_content[i].x) :
                    result.levels[k].notes = Note("Bounced from", email_content[i].x, 0)

\* C24: for every range phrase with both bounds in range the pattern-based
\* result holds, for each symbol, two buy_zone levels, one at min(X,Y) and
\* one at max(X,Y), both carrying the notes naming the two bounds.
C24_RangeGivesTwoLevels ==
    PatternBased =>
        \A i \in PhrasesOf("range") : \A s \in ResultSymbols :
            InRange(email_content[i].y) =>
                LET lo == Min(email_content[i].x, email_content[i].y)
                    hi == Max(email_content[i].x, email_content[i].y)
                IN  \E k, m \in 1..Len(result.levels) :
                        /\ k # m
                        /\ result.levels[k] = Level(s, "buy_zone", lo, Note("Buy Zone", lo, hi))
                        /\ result.levels[m] = Level(s, "buy_zone", hi, Note("Buy Zone", lo, hi))

\* The (type, price, notes) of the levels the result attaches to a symbol.
AttachedTo(s) ==
    { <<result.levels[k].type, result.levels[k].price, result.levels[k].notes>> :
        k \in { m \in 1..Len(result.levels) : result.levels[m].symbol = s } }

\* The order in which the loop body runs the pattern families, by the notes
\* each family writes.
FamilyRank ==
    "PT" :> 1 @@ "Buy Zone" :> 2 @@ "Bounced from" :> 3
    @@ "resistance up to" :> 4 @@ "High of" :> 5

\* C25: in a pattern-based result every returned symbol is attached the same
\* (type, price, notes), and the levels come symbol by symbol in sorted
\* order and, within a symbol, in the order of the pattern families.
C25_SameLevelsPerSymbol ==
    PatternBased =>
        /\ \A s1, s2 \in ResultSymbols : AttachedTo(s1) = AttachedTo(s2)
        /\ \A k, m \in 1..Len(result.levels) :
                k < m =>
                    \/ SymbolRank[result.levels[k].symbol]
                            < SymbolRank[result.levels[m].symbol]
                    \/ /\ result.levels[k].symbol = result.levels[m].symbol
                       /\ FamilyRank[result.levels[k].notes.tag]
                            <= FamilyRank[result.levels[m].notes.tag]

\* Two symbols, with a high phrase ahead of a price-target phrase in the
\* text: each symbol has the target first and the resistance second.
C25_Witness ==
    /\ PatternBased
    /\ email_content = <<SymbolPairLine, HighLine(60), PtLine(50)>>
    /\ result.levels =
          <<Level("AMD", "target", 50, Note("PT", 50, 0)),
            Level("AMD", "resistance", 60, Note("High of", 60, 0)),
            Level("NVDA", "target", 50, Note("PT", 50, 0)),
            Level("NVDA", "resistance", 60, Note("High of", 60, 0))>>

-----------------------------------------------------------------------------
(* Claims about process_existing_data, checked under SpecStore *)

AllRunsDone == \A r \in Runs : run_pc[r] = "done"

\* The (user, symbol) pairs that have price levels.
PairsWithLevels ==
    { <<price_levels[i].user_id, price_levels[i].symbol>> :
        i \in 1..Len(price_levels) }

EvaluationsOf(u, s) ==
    { i \in 1..Len(evaluations) :
        evaluations[i].user_id = u /\ evaluations[i].symbol = s }

\* C6: after any sequence of analysis runs, one after the other, there is
\* exactly one stored evaluation per (user, symbol) pair that has levels.
C6_OneEvaluationPerUserSymbol ==
    (AllRunsDone /\ ~overlap) =>
        \A p \in PairsWithLevels : Cardinality(EvaluationsOf(p[1], p[2])) = 1

\* C7: when runs re-analyse the same symbol concurrently, the store ends with
\* a single evaluation for that symbol, holding the values of whichever run
\* committed last.
C7_LastCommitWins ==
    AllRunsDone =>
        \A s \in { price_levels[i].symbol : i \in 1..Len(price_levels) } :
            /\ Cardinality(EvaluationIds(s)) = 1
            /\ \A i \in EvaluationIds(s) : evaluations[i].values = last_commit[s]

-----------------------------------------------------------------------------
(* Claims about extract_tli_recommendation, checked under SpecTli *)

Extracted == tli_pc = "done"

HasBuyWord == WordsOf(parsed_data.notes) \cap BuyWords # {}
HasSellWord == WordsOf(parsed_data.notes) \cap SellWords # {}
HasWaitWord == WordsOf(parsed_data.notes) \cap WaitWords # {}

\* C12: the recommendation follows the ordered precedence of the keyword
\* families found in the notes: buy when a buy keyword is present, whatever
\* else is; otherwise sell when a sell keyword is present; otherwise wait
\* when a wait keyword is present; otherwise hold.
C12_OrderedPrecedence ==
    Extracted =>
        /\ HasBuyWord => tli_signal.recommendation = "buy"
        /\ (~HasBuyWord /\ HasSellWord) => tli_signal.recommendation = "sell"
        /\ (~HasBuyWord /\ ~HasSellWord /\ HasWaitWord)
                => tli_signal.recommendation = "wait"
        /\ (~HasBuyWord /\ ~HasSellWord /\ ~HasWaitWord)
                => tli_signal.recommendation = "hold"

\* Notes naming all three families have been given the recommendation buy.
C12_Witness ==
    /\ Extracted /\ HasBuyWord /\ HasSellWord /\ HasWaitWord
    /\ tli_signal.recommendation = "buy"

\* The positions of the levels of the requested symbol whose type, whatever
\* its letter case, is one of the given spellings.
OwnLevels(spellings) ==
    { i \in 1..Len(parsed_data.levels) :
        /\ parsed_data.levels[i].symbol = tli_symbol
        /\ parsed_data.levels[i].type \in spellings }

\* The price of the last of these levels, None when there is none.
LastOf(idx) ==
    IF idx = {} THEN None
    ELSE Num(parsed_data.levels[CHOOSE i \in idx : \A j \in idx : j <= i].price)

\* C26: target_price is the price of the last level of the requested symbol
\* typed target or pt, None when there is none; stop_loss likewise from the
\* levels typed stop_loss or stop; levels of another symbol count for
\* neither.
C26_LastLevelWins ==
    Extracted =>
        /\ tli_signal.target_price = LastOf(OwnLevels({"target", "TARGET", "pt"}))
        /\ tli_signal.stop_loss = LastOf(OwnLevels({"stop_loss", "stop", "Stop"}))

\* Two target levels of the requested symbol: the later price was kept.
C26_Witness ==
    /\ Extracted /\ tli_symbol = "AMD"
    /\ parsed_data.levels =
          <<Level("AMD", "target", 130, Note("PT", 130, 0)),
            Level("AMD", "TARGET", 120, Note("PT", 120, 0))>>
    /\ tli_signal.target_price = Num(120)

-----------------------------------------------------------------------------
(* Claims about parse_gmail_email, checked under SpecGmail *)

\* How many commits of parse_gmail_email saved the levels of message m.
TimesSaved(m) == Cardinality({ i \in 1..Len(saved_from) : saved_from[i] = m })

\* C27: the levels of a message are persisted at most once, and every
\* message whose levels were persisted has its ParsedEmail entry.
C27_ParsedOnce ==
    \A m \in MessageIds :
        /\ TimesSaved(m) <= 1
        /\ TimesSaved(m) >= 1 => m \in parsed_emails

-----------------------------------------------------------------------------
(* Claims about the pattern-based pipeline, checked under SpecPipeline *)

\* C29: no level of a pattern-based result is typed stop_loss, stop or
\* entry; the signal extracted from it has stop_loss None, and the record
\* scored from that signal has no risk/reward contribution and no
\* risk/reward flag.
C29_NoStopLossFromPatterns ==
    /\ PatternBased =>
            \A k \in 1..Len(result.levels) :
                result.levels[k].type \notin {"stop_loss", "stop", "entry"}
    /\ tli_pc = "done" => tli_signal.stop_loss = None
    /\ (tli_pc = "done" /\ Scored) =>
            /\ RiskRewardContribution = 0
            /\ ~HasFlag("rr_excellent") /\ ~HasFlag("rr_good") /\ ~HasFlag("rr_poor")

\* A text with a price target and a bounce phrase, scored against a quote.
C29_Witness ==
    /\ tli_pc = "done" /\ Scored
    /\ data["current_price"] = Num(100)
    /\ tli_signal.target_price = Num(50) /\ tli_signal.stop_loss = None
    /\ \E k \in 1..Len(result.levels) : result.levels[k].type = "support"

-----------------------------------------------------------------------------
(* Claims about re-analysis, checked under SpecStore *)

\* C30: every analysis record, normal or fallback, has the same fields, the
\* columns of StockEvaluation; a commit that updates a stored evaluation
\* leaves every analysis column equal to the latest analysis, so no value of
\* the earlier one survives, and leaves id, user_id and created_at as they
\* were while updated_at advances.
C30_UpdateReplacesEveryField ==
    [][\A r \in Runs :
        (run_pc[r] = "commit" /\ run_pc'[r] # "commit" /\ run_eval[r] # 0) =>
            LET old == evaluations[run_eval[r]]
                new == evaluations'[run_eval[r]]
                latest == run_analysis[r]
            IN  /\ DOMAIN latest = Columns
                /\ \A k \in Columns : new.values[k] = latest[k]
                /\ new.id = old.id
                /\ new.user_id = old.user_id
                /\ new.created_at = old.created_at
                /\ new.updated_at > old.updated_at
                /\ Len(evaluations') = Len(evaluations)
                /\ \A i \in 1..Len(evaluations) :
                        i # run_eval[r] => evaluations'[i] = evaluations[i]]_vars

\* An evaluation created with a quote and later updated by an analysis made
\* while the providers were unavailable: its price and RSI are null.
C30_Witness ==
    \E i \in 1..Len(evaluations) :
        /\ evaluations[i].updated_at > evaluations[i].created_at
        /\ evaluations[i].values["current_price"] = None
        /\ evaluations[i].values["rsi"] = None
        /\ evaluations[i].values["flags"] = <<"external_data_unavailable">>
        /\ \E r \in Runs : run_pc[r] = "done" /\ run_eval[r] = i

====
